---- MODULE Spec2Model ----
(***************************************************************************)
(* Spot-price dashboard (akamon).  Two variants of the App component are  *)
(* modelled: src/src/App.tsx ("App": a fetch per day selection, memoised  *)
(* filter and stats, loading and error cells) and src/unnamed/part_000    *)
(* ("Original": one fetch on mount, filter and stats computed by the      *)
(* handleFilter button handler).                                           *)
(*                                                                         *)
(* Prices are exact rationals [n, d]; IEEE-754 rounding is not modelled.   *)
(* Strings that are inspected character by character (timestamps, day      *)
(* keys) are sequences of one-character strings.                           *)
(***************************************************************************)
EXTENDS Integers, Sequences, FiniteSets, TLC

VARIABLES
    variant,            \* which component is mounted: "App" or "Original"
    payload,            \* the record array served at /data.json
    data,               \* useState<DataItem[]>
    source,             \* history: the payload records the present data was mapped from
    date,               \* useState<string>
    filteredData,       \* App: useMemo value of the last render; Original: useState
    stats,              \* the five stats cells
    loading,            \* App only
    error,              \* App only
    awaitingResponse,   \* calls suspended at `await fetch(...)` / in the first .then
    awaitingBody,       \* calls suspended at `await response.json()`
    effects             \* passive effects scheduled by the last render, not yet run

vars == <<variant, payload, data, source, date, filteredData, stats, loading,
          error, awaitingResponse, awaitingBody, effects>>

-----------------------------------------------------------------------------
(* Bounds *)

MaxLen == 2

MaxInFlight == 2

-----------------------------------------------------------------------------
(* Exact rational arithmetic for the number type *)

\* Operator arguments are passed to functions so that each is evaluated once.

Abs(x) == IF x < 0 THEN -x ELSE x

Sign(x) == IF x < 0 THEN -1 ELSE IF x > 0 THEN 1 ELSE 0

GCD[a \in Nat, b \in Nat] == IF b = 0 THEN a ELSE GCD[b, a % b]

\* n/d in lowest terms with d > 0; a zero denominator is the non-finite
\* result of a JavaScript division by zero (0/0 NaN, 1/0 and -1/0 Infinity).
Reduced[n \in Int, d \in Int] ==
    IF d = 0 THEN [n |-> Sign(n), d |-> 0]
    ELSE [n |-> (Sign(d) * n) \div GCD[Abs(n), Abs(d)],
          d |-> (Sign(d) * d) \div GCD[Abs(n), Abs(d)]]

Rat(n, d) == Reduced[n, d]

Number == [n : Int, d : Int]

IsFinite(a) == a.d # 0

Num(k) == Rat(k, 1)

Product[a \in Number, b \in Number] == Reduced[a.n * b.n, a.d * b.d]

Sum[a \in Number, b \in Number] == Reduced[a.n * b.d + b.n * a.d, a.d * b.d]

Quotient[a \in Number, b \in Number] == Reduced[a.n * b.d, a.d * b.n]

Mul(a, b) == Product[a, b]

Add(a, b) == Sum[a, b]

DivBy(a, b) == Quotient[a, b]

Less(a, b) == a.n * b.d < b.n * a.d

Greater(a, b) == Less(b, a)

LessEq(a, b) == ~Less(b, a)

-----------------------------------------------------------------------------
(* Values *)

\* error === null
Null == "null"

DayKeys == {<<>>, <<"1">>, <<"2">>}

\* <day> T <hour>: the serialized instants of the feed
Timestamps == {<<"1", "T", "0">>, <<"1", "T", "1">>, <<"2", "T", "0">>}

RawPrices == {Num(-10), Num(20)}

SourceUnits == {"EUR/MWh", "snt/kWh"}

DataItem(u) ==
    [timestamp : Timestamps, price : RawPrices, deliveryArea : {"FI"}, unit : {u}]

SeqsUpTo(S, k) == UNION {[1..m -> S] : m \in 0..k}

\* the bodies /data.json may hold: a record array of one source unit
Payloads == UNION {SeqsUpTo(DataItem(u), MaxLen) : u \in SourceUnits}

\* messages of the errors fetch() and response.json() reject with
ThrownMessages == {"Failed to fetch", ""}

HttpStatuses == {500}

-----------------------------------------------------------------------------
(* Pure functions of the components *)

Unit == [PricePerKWh |-> "snt/kWh"]

\* mutant of convertItem: the tax multiplier is left out and the source unit kept
convertItem_noTax(item) == [item EXCEPT !.price = Mul(item.price, Rat(1, 10))]

\* item => ({...item, price: item.price * 0.1 * 1.24, unit: Unit.PricePerKWh})
convertItem(item) ==
    [item EXCEPT !.price = Mul(Mul(item.price, Rat(1, 10)), Rat(124, 100)),
                 !.unit = Unit.PricePerKWh]

\* result.map(convertItem)
RECURSIVE convertedData(_)
convertedData(result) ==
    IF result = <<>> THEN <<>>
    ELSE <<convertItem(Head(result))>> \o convertedData(Tail(result))

\* String.prototype.startsWith
startsWith(s, prefix) ==
    /\ Len(prefix) <= Len(s)
    /\ \A i \in 1..Len(prefix) : s[i] = prefix[i]

\* mutant of filterByDay: matching records are collected in reverse order
RECURSIVE filterByDay_reversed(_, _)
filterByDay_reversed(items, d) ==
    IF items = <<>> THEN <<>>
    ELSE LET rest == filterByDay_reversed(Tail(items), d)
         IN  IF startsWith(Head(items).timestamp, d)
             THEN rest \o <<Head(items)>>
             ELSE rest

\* Array.prototype.filter with item => item.timestamp.startsWith(d)
RECURSIVE filterByDay(_, _)
filterByDay(items, d) ==
    IF items = <<>> THEN <<>>
    ELSE LET rest == filterByDay(Tail(items), d)
         IN  IF startsWith(Head(items).timestamp, d)
             THEN <<Head(items)>> \o rest
             ELSE rest

\* App.tsx useMemo(() => ..., [data, date])
filteredDataMemo(items, d) ==
    IF d = <<>> \/ Len(items) = 0 THEN <<>> ELSE filterByDay(items, d)

\* mutant of cheaper: <= for <, which keeps the earlier of two equal prices
cheaper_keepsFirst(prev, curr) ==
    IF LessEq(prev.price, curr.price) THEN prev ELSE curr

\* (prev, curr) => (prev.price < curr.price ? prev : curr)
cheaper(prev, curr) == IF Less(prev.price, curr.price) THEN prev ELSE curr

\* mutant of dearer: the comparison of cheaper copied unchanged
dearer_copied(prev, curr) == IF Less(prev.price, curr.price) THEN prev ELSE curr

\* (prev, curr) => (prev.price > curr.price ? prev : curr)
dearer(prev, curr) == IF Greater(prev.price, curr.price) THEN prev ELSE curr

\* Array.prototype.reduce without an initial value, over items[1..k]
RECURSIVE reduceCheapest(_, _)
reduceCheapest(items, k) ==
    IF k = 1 THEN items[1] ELSE cheaper(reduceCheapest(items, k - 1), items[k])

RECURSIVE reduceMostExpensive(_, _)
reduceMostExpensive(items, k) ==
    IF k = 1 THEN items[1] ELSE dearer(reduceMostExpensive(items, k - 1), items[k])

\* reduce((sum, item) => sum + item.price, 0) over items[1..k]
RECURSIVE reduceSum(_, _)
reduceSum(items, k) ==
    IF k = 0 THEN Num(0) ELSE Add(reduceSum(items, k - 1), items[k].price)

\* mutant of average: the count is off by one
average_offByOne(items) ==
    DivBy(reduceSum(items, Len(items)), Num(Len(items) - 1))

\* sum / filteredData.length
average(items) == DivBy(reduceSum(items, Len(items)), Num(Len(items)))

\* new Date(timestamp).toLocaleTimeString([], {hour, minute}): the time of
\* day of the instant, i.e. what follows the "T" of the serialized form
toLocaleTimeString(timestamp) ==
    LET t == CHOOSE i \in 1..Len(timestamp) : timestamp[i] = "T"
    IN  SubSeq(timestamp, t + 1, Len(timestamp))

defaultStats ==
    [cheapestHour |-> <<>>, mostExpensiveHour |-> <<>>, averagePrice |-> Num(0),
     cheapestPrice |-> Num(0), mostExpensivePrice |-> Num(0)]

\* the stats of a filtered array: the body of calculateStats / handleFilter
calculateStats(filtered) ==
    IF Len(filtered) > 0
    THEN LET cheapest == reduceCheapest(filtered, Len(filtered))
             mostExpensive == reduceMostExpensive(filtered, Len(filtered))
         IN  [cheapestHour |-> toLocaleTimeString(cheapest.timestamp),
              mostExpensiveHour |-> toLocaleTimeString(mostExpensive.timestamp),
              averagePrice |-> average(filtered),
              cheapestPrice |-> cheapest.price,
              mostExpensivePrice |-> mostExpensive.price]
    ELSE defaultStats

\* error.message || 'An unknown error occurred.'
errorMessage(message) ==
    IF message = "" THEN "An unknown error occurred." ELSE message

\* new Error(`HTTP error! status: ${response.status}`).message
httpErrorMessage(status) == "HTTP error! status: " \o ToString(status)

-----------------------------------------------------------------------------
(* State *)

NoEffects == [date |-> FALSE, stats |-> FALSE]

EffectsPending == effects.date \/ effects.stats

InFlight == awaitingResponse + awaitingBody

\* After the first commit and its effects.  App: useEffect([date]) found
\* date '' and started nothing, useEffect([calculateStats]) stored the default
\* stats.  Original: the mount effect has called fetch('/data.json').
Init ==
    /\ variant \in {"App", "Original"}
    /\ payload \in Payloads
    /\ data = <<>>
    /\ source = <<>>
    /\ date = <<>>
    /\ filteredData = <<>>
    /\ stats = defaultStats
    /\ loading = FALSE
    /\ error = Null
    /\ awaitingResponse = IF variant = "Original" THEN 1 ELSE 0
    /\ awaitingBody = 0
    /\ effects = NoEffects

-----------------------------------------------------------------------------
(* src/src/App.tsx *)

\* handleDateChange, and the render it causes: filteredData is memoised on
\* [data, date], calculateStats on [filteredData], so both effects are scheduled.
\* A selection that will start a fetch is taken only while the in-flight
\* bound leaves room for it.
handleDateChange(d) ==
    /\ variant = "App"
    /\ ~EffectsPending
    /\ d # date
    /\ d # <<>> => InFlight < MaxInFlight
    /\ date' = d
    /\ filteredData' = filteredDataMemo(data, d)
    /\ effects' = [date |-> TRUE, stats |-> TRUE]
    /\ UNCHANGED <<variant, payload, data, source, stats, loading, error,
                   awaitingResponse, awaitingBody>>

\* The passive effects of the last render, in declaration order:
\* useEffect([date]) calls fetchData when date is non-empty, which runs up to
\* `await fetch` (setError(null), setLoading(true)); then
\* useEffect([calculateStats]) calls setStats(calculateStats).
flushEffects ==
    /\ variant = "App"
    /\ EffectsPending
    /\ IF effects.date /\ date # <<>>
       THEN /\ error' = Null
            /\ loading' = TRUE
            /\ awaitingResponse' = awaitingResponse + 1
       ELSE UNCHANGED <<error, loading, awaitingResponse>>
    /\ stats' = IF effects.stats THEN calculateStats(filteredData) ELSE stats
    /\ effects' = NoEffects
    /\ UNCHANGED <<variant, payload, data, source, date, filteredData, awaitingBody>>

\* mutant of catchAndFinally: no finally block, loading stays as it was
catchAndFinally_noFinally(message) ==
    /\ error' = errorMessage(message)
    /\ data' = <<>>
    /\ source' = <<>>
    /\ loading' = loading
    /\ filteredData' = filteredDataMemo(<<>>, date)
    /\ effects' = [date |-> FALSE, stats |-> TRUE]

\* catch (error) { setError(...); setData([]) } finally { setLoading(false) }
\* and the render that follows: data is a new array, so the memos are
\* recomputed and useEffect([calculateStats]) is scheduled.
catchAndFinally(message) ==
    /\ error' = errorMessage(message)
    /\ data' = <<>>
    /\ source' = <<>>
    /\ loading' = FALSE
    /\ filteredData' = filteredDataMemo(<<>>, date)
    /\ effects' = [date |-> FALSE, stats |-> TRUE]

\* fetch resolves with response.ok: the call goes on to `await response.json()`
fetchOk ==
    /\ variant = "App"
    /\ ~EffectsPending
    /\ awaitingResponse > 0
    /\ awaitingResponse' = awaitingResponse - 1
    /\ awaitingBody' = awaitingBody + 1
    /\ UNCHANGED <<variant, payload, data, source, date, filteredData, stats,
                   loading, error, effects>>

\* fetch resolves with !response.ok: throw new Error(`HTTP error! ...`)
fetchHttpError(status) ==
    /\ variant = "App"
    /\ ~EffectsPending
    /\ awaitingResponse > 0
    /\ awaitingResponse' = awaitingResponse - 1
    /\ catchAndFinally(httpErrorMessage(status))
    /\ UNCHANGED <<variant, payload, date, stats, awaitingBody>>

\* fetch rejects (network exception)
fetchRejected(message) ==
    /\ variant = "App"
    /\ ~EffectsPending
    /\ awaitingResponse > 0
    /\ awaitingResponse' = awaitingResponse - 1
    /\ catchAndFinally(message)
    /\ UNCHANGED <<variant, payload, date, stats, awaitingBody>>

\* response.json() resolves: map, setData(convertedData), finally
\* setLoading(false), and the render that follows
jsonResolved ==
    /\ variant = "App"
    /\ ~EffectsPending
    /\ awaitingBody > 0
    /\ awaitingBody' = awaitingBody - 1
    /\ data' = convertedData(payload)
    /\ source' = payload
    /\ loading' = FALSE
    /\ filteredData' = filteredDataMemo(data', date)
    /\ effects' = [date |-> FALSE, stats |-> TRUE]
    /\ UNCHANGED <<variant, payload, date, stats, error, awaitingResponse>>

\* response.json() rejects (unparsable body), or result.map throws
jsonRejected(message) ==
    /\ variant = "App"
    /\ ~EffectsPending
    /\ awaitingBody > 0
    /\ awaitingBody' = awaitingBody - 1
    /\ catchAndFinally(message)
    /\ UNCHANGED <<variant, payload, date, stats, awaitingResponse>>

-----------------------------------------------------------------------------
(* src/unnamed/part_000 *)

\* handleDateChange: setDate only
orig_handleDateChange(d) ==
    /\ variant = "Original"
    /\ d # date
    /\ date' = d
    /\ UNCHANGED <<variant, payload, data, source, filteredData, stats, loading,
                   error, awaitingResponse, awaitingBody, effects>>

\* handleFilter (the "Hae" button)
handleFilter ==
    /\ variant = "Original"
    /\ LET filtered == filterByDay(data, date)
       IN  /\ filteredData' = filtered
           /\ stats' = calculateStats(filtered)
    /\ UNCHANGED <<variant, payload, data, source, date, loading, error,
                   awaitingResponse, awaitingBody, effects>>

\* fetch('/data.json') resolves: .then(response => response.json())
orig_fetchResolved ==
    /\ variant = "Original"
    /\ awaitingResponse > 0
    /\ awaitingResponse' = awaitingResponse - 1
    /\ awaitingBody' = awaitingBody + 1
    /\ UNCHANGED <<variant, payload, data, source, date, filteredData, stats,
                   loading, error, effects>>

\* fetch rejects: the chain has no catch, nothing is stored
orig_fetchRejected ==
    /\ variant = "Original"
    /\ awaitingResponse > 0
    /\ awaitingResponse' = awaitingResponse - 1
    /\ UNCHANGED <<variant, payload, data, source, date, filteredData, stats,
                   loading, error, awaitingBody, effects>>

\* response.json() resolves: .then(data => setData(data.map(...)))
orig_jsonResolved ==
    /\ variant = "Original"
    /\ awaitingBody > 0
    /\ awaitingBody' = awaitingBody - 1
    /\ data' = convertedData(payload)
    /\ source' = payload
    /\ UNCHANGED <<variant, payload, date, filteredData, stats, loading, error,
                   awaitingResponse, effects>>

\* response.json() rejects: the chain has no catch, nothing is stored
orig_jsonRejected ==
    /\ variant = "Original"
    /\ awaitingBody > 0
    /\ awaitingBody' = awaitingBody - 1
    /\ UNCHANGED <<variant, payload, data, source, date, filteredData, stats,
                   loading, error, awaitingResponse, effects>>

-----------------------------------------------------------------------------

\* the steps of src/src/App.tsx
AppNext ==
    \/ \E d \in DayKeys : handleDateChange(d)
    \/ flushEffects
    \/ fetchOk
    \/ \E status \in HttpStatuses : fetchHttpError(status)
    \/ \E message \in ThrownMessages : fetchRejected(message)
    \/ jsonResolved
    \/ \E message \in ThrownMessages : jsonRejected(message)

\* the steps of src/unnamed/part_000
OriginalNext ==
    \/ \E d \in DayKeys : orig_handleDateChange(d)
    \/ handleFilter
    \/ orig_fetchResolved
    \/ orig_fetchRejected
    \/ orig_jsonResolved
    \/ orig_jsonRejected

Next == AppNext \/ OriginalNext

Spec == Init /\ [][Next]_vars

\* fetch() settles, response.json() settles, React runs scheduled effects
FetchSettles ==
    \/ fetchOk
    \/ \E status \in HttpStatuses : fetchHttpError(status)
    \/ \E message \in ThrownMessages : fetchRejected(message)

BodySettles ==
    \/ jsonResolved
    \/ \E message \in ThrownMessages : jsonRejected(message)

\* App.tsx alone, serving at most one record: loading, error and the calls
\* in flight never depend on the records served.
LiveInit == Init /\ variant = "App" /\ Len(payload) <= 1

\* Every started fetch eventually settles; scheduled effects are run.
LiveSpec ==
    /\ LiveInit
    /\ [][AppNext]_vars
    /\ WF_vars(flushEffects)
    /\ SF_vars(FetchSettles)
    /\ SF_vars(BodySettles)

-----------------------------------------------------------------------------
(* Vocabulary of the properties *)

\* the stats the aggregation has produced for filteredData: App.tsx's
\* memoised calculateStats, the cells handleFilter stored in the original
aggregated == IF variant = "App" THEN calculateStats(filteredData) ELSE stats

\* a step in which the aggregation runs: every render of App.tsx,
\* handleFilter in the original
Aggregates == variant = "App" \/ handleFilter

\* p is a prefix of s
HasPrefix(s, p) == \E k \in 0..Len(s) : SubSeq(s, 1, k) = p

Matching(S, d) == {i \in 1..Len(S) : HasPrefix(S[i].timestamp, d)}

\* the k-th smallest element of a set of indices
KthOf(I, k) == CHOOSE i \in I : Cardinality({j \in I : j < i}) = k - 1

\* the records of S whose timestamp has prefix d, in the order of S
MatchingSubsequence(S, d) ==
    [k \in 1..Cardinality(Matching(S, d)) |-> S[KthOf(Matching(S, d), k)]]

MinOf(I) == CHOOSE i \in I : \A j \in I : i <= j

MaxOf(I) == CHOOSE i \in I : \A j \in I : j <= i

\* positions of F holding the minimal / maximal price
ArgMin(F) == {i \in 1..Len(F) : \A j \in 1..Len(F) : LessEq(F[i].price, F[j].price)}

ArgMax(F) == {i \in 1..Len(F) : \A j \in 1..Len(F) : LessEq(F[j].price, F[i].price)}

RECURSIVE SumOfPrices(_)
SumOfPrices(F) == IF F = <<>> THEN Num(0) ELSE Add(Head(F).price, SumOfPrices(Tail(F)))

-----------------------------------------------------------------------------
(* C1 *)

\* C1 as stated: for every day key, the empty one included, the filtered
\* sequence the aggregation produces is exactly the records of the current
\* sequence whose timestamp has the day key as a prefix, in order.
C1_AllKeys ==
    [][Aggregates => filteredData' = MatchingSubsequence(data', date')]_vars

\* C1 amended: the filtered sequence is exactly the matching subsequence, in
\* order, for every non-empty day key in both variants and for the empty key
\* in the original; for the empty day key App.tsx produces the empty sequence.
C1_Filtered ==
    [][Aggregates =>
         filteredData' = IF variant = "App" /\ date' = <<>>
                         THEN <<>>
                         ELSE MatchingSubsequence(data', date')]_vars

\* some records of the sequence are kept and some are dropped
C1_Witness ==
    /\ date # <<>>
    /\ filteredData # <<>>
    /\ Len(filteredData) < Len(data)
    /\ filteredData = MatchingSubsequence(data, date)

-----------------------------------------------------------------------------
(* C2 *)

\* C2: whenever the aggregation runs with an empty day key, or with a day key
\* no record matches, it yields the empty filtered sequence and the default
\* stats, in both variants.
C2_EmptyPolicy ==
    [][(Aggregates /\ (date' = <<>> \/ Matching(data', date') = {})) =>
         /\ filteredData' = <<>>
         /\ (IF variant = "App" THEN calculateStats(filteredData') ELSE stats')
                = defaultStats]_vars

-----------------------------------------------------------------------------
(* C3 *)

\* C3 as stated: for a non-empty filtered set the cheapest hour is that of
\* the leftmost record with the minimal price and the most expensive hour
\* that of the leftmost record with the maximal price.
C3_Leftmost ==
    filteredData # <<>> =>
        /\ aggregated.cheapestHour =
              toLocaleTimeString(filteredData[MinOf(ArgMin(filteredData))].timestamp)
        /\ aggregated.mostExpensiveHour =
              toLocaleTimeString(filteredData[MinOf(ArgMax(filteredData))].timestamp)

\* C3 amended: the record chosen as cheapest is the rightmost (last) record
\* with the minimal price, the one chosen as most expensive the rightmost
\* record with the maximal price; with all prices equal both are the last
\* record of the filtered set.
C3_Rightmost ==
    filteredData # <<>> =>
        \E result \in {aggregated} :
            /\ result.cheapestHour =
                  toLocaleTimeString(filteredData[MaxOf(ArgMin(filteredData))].timestamp)
            /\ result.mostExpensiveHour =
                  toLocaleTimeString(filteredData[MaxOf(ArgMax(filteredData))].timestamp)

\* two records of different hours share the price, and the stats computed
\* from them name the hour of the second
C3_Witness ==
    /\ date # <<>>
    /\ Len(filteredData) = 2
    /\ ArgMin(filteredData) = {1, 2}
    /\ toLocaleTimeString(filteredData[1].timestamp)
         # toLocaleTimeString(filteredData[2].timestamp)
    /\ aggregated.cheapestHour = toLocaleTimeString(filteredData[2].timestamp)
    /\ aggregated.mostExpensiveHour = toLocaleTimeString(filteredData[2].timestamp)

-----------------------------------------------------------------------------
(* C4 *)

\* C4: for a non-empty filtered set cheapestPrice is the minimum and
\* mostExpensivePrice the maximum of the prices: they bound every price and
\* each is the price of some record.
C4_Extrema ==
    filteredData # <<>> =>
        \E lo \in {aggregated.cheapestPrice}, hi \in {aggregated.mostExpensivePrice} :
            /\ \A i \in 1..Len(filteredData) :
                  /\ LessEq(lo, filteredData[i].price)
                  /\ LessEq(filteredData[i].price, hi)
            /\ \E i \in 1..Len(filteredData) : filteredData[i].price = lo
            /\ \E i \in 1..Len(filteredData) : filteredData[i].price = hi

\* a filtered set with a negative and a positive price, the minimum not first
C4_Witness ==
    /\ date # <<>>
    /\ Len(filteredData) >= 2
    /\ Less(aggregated.cheapestPrice, Num(0))
    /\ Less(Num(0), aggregated.mostExpensivePrice)
    /\ filteredData[1].price # aggregated.cheapestPrice

-----------------------------------------------------------------------------
(* C5 *)

-----------------------------------------------------------------------------
(* C6 *)

\* C6: the in-memory sequence has the length and order of the payload it was
\* loaded from, and each record has the payload record's price times 0.1
\* times 1.24 (= 31/250), converted once, the unit 'snt/kWh', and the payload
\* record's timestamp and deliveryArea.
C6_Conversion ==
    /\ source \in {<<>>, payload}
    /\ Len(data) = Len(source)
    /\ \A i \in 1..Len(data) :
          /\ Mul(data[i].price, Num(250)) = Mul(source[i].price, Num(31))
          /\ data[i].unit = "snt/kWh"
          /\ data[i].timestamp = source[i].timestamp
          /\ data[i].deliveryArea = source[i].deliveryArea

\* App.tsx shows a day of a full-length sequence loaded from a payload in
\* another unit, whose first raw price -10 became -1.24
C6_Witness ==
    /\ variant = "App"
    /\ ~loading
    /\ error = Null
    /\ filteredData # <<>>
    /\ Len(data) = MaxLen
    /\ source[1].unit = "EUR/MWh"
    /\ source[1].price = Num(-10)
    /\ data[1].price = Rat(-124, 100)

-----------------------------------------------------------------------------
(* C7 *)

\* C7: in App.tsx, whenever the error message is set the in-memory sequence
\* is empty.
C7_NoDataWithError ==
    (variant = "App" /\ error # Null) => data = <<>>

-----------------------------------------------------------------------------
(* C8 *)

\* C8: in App.tsx, whenever a call of fetchData has started and not yet
\* resolved, loading is true.
C8_LoadingWhilePending ==
    (variant = "App" /\ InFlight > 0) => loading

-----------------------------------------------------------------------------
(* C9 *)

\* the stats are on screen: App.tsx renders them when neither loading nor
\* an error is shown, the original always
Presented == variant = "Original" \/ (~loading /\ error = Null)

\* C9: whenever the stats are presented, the five stats cells equal the
\* stats the aggregation computes from the current sequence and day key.
C9_Derived ==
    Presented =>
        stats = calculateStats(IF variant = "App"
                               THEN filteredDataMemo(data, date)
                               ELSE filterByDay(data, date))

-----------------------------------------------------------------------------
(* C10 *)

\* C10: in App.tsx, with every started fetch settling eventually, loading =
\* true is always followed by loading = false; loading is false whenever no
\* fetch is pending; and selecting the empty day key (the selection and the
\* effects it schedules) starts no fetch and leaves loading, error and data
\* unchanged.
C10_LoadingEnds ==
    /\ [](loading => <>(~loading))
    /\ [](InFlight = 0 => ~loading)
    /\ [][(variant = "App" /\ date' = <<>> /\ (date # <<>> \/ effects.date)) =>
            UNCHANGED <<loading, error, data, awaitingResponse, awaitingBody>>]_vars

\* a fetch has failed and none is pending: loading is off, the error shown
C10_Witness ==
    /\ variant = "App"
    /\ error # Null
    /\ InFlight = 0
    /\ ~loading
    /\ ~EffectsPending

====
